---- MODULE Spec2Model ----
(***************************************************************************)
(* The proof-sequence validation engine of ParsonsPuzzleSUTD: the class    *)
(* ProofValidator (src/src/utils/README.md, lines 114-581).                *)
(*                                                                         *)
(* A caller holds a puzzle and a learner order, constructs a validator on  *)
(* the puzzle and calls its methods on the learner order.  Every method is *)
(* an operator taking the validator object `self`; every call is an action *)
(* that records the call, the returned value, the console output of the    *)
(* call and the methods the call ran.                                      *)
(*                                                                         *)
(* JavaScript positions are 0-based and are kept 0-based here: At(s, i) is *)
(* s[i] of the source.  Emoji of the feedback strings are written as       *)
(* ASCII names in parentheses.                                             *)
(***************************************************************************)
EXTENDS Integers, Sequences, FiniteSets, TLC

VARIABLES
    puzzle,      \* the puzzle object the caller passes to the constructor
    userOrder,   \* the caller's learner order (an array of block ids)
    validator,   \* the ProofValidator instance, NoValidator before construction
    call,        \* the call that has just run: [op, arguments]; Idle between calls
    result,      \* the value that call returns
    thrown,      \* the exception that call threw, NoError if it returns
    console,     \* the console.warn entries that call wrote
    trace,       \* the methods the body of the last call invoked, in order
    earlier,     \* the first validateProof result the caller was given
    availableBlocks,   \* PuzzleDisplay: the blocks of the palette
    proofBlocks,       \* PuzzleDisplay: the blocks of the workspace
    pending,           \* the state updates queued since the last render
    batch,             \* the handlers that ran since the last render
    committed,         \* the handlers whose updates the last render applied
    validationResult   \* ProofValidationDisplay: the result on display

displayVars ==
    <<availableBlocks, proofBlocks, pending, batch, committed, validationResult>>

vars == <<puzzle, userOrder, validator, call, result, thrown, console, trace,
          earlier, displayVars>>

----------------------------------------------------------------------------
(* Bounds and input sets *)

MaxUserLen == 5
MaxLongUserLen == 3

NULL == "null"
NoValidator == [constructed |-> FALSE]
NoError == "none"
BlockIds == <<"a", "b", "c", "d">>
LongBlockIds == <<"a", "b", "c", "d", "e">>
Foreign == "x"

SeqsUpTo(S, n) == UNION {[1..k -> S] : k \in 0..n}
Prefix(s, k) == SubSeq(s, 1, k)
At(s, i) == s[i + 1]
SetOf(s) == {s[i] : i \in DOMAIN s}
Includes(s, x) == \E i \in DOMAIN s : s[i] = x
MathMin(a, b) == IF a < b THEN a ELSE b
MathMax(a, b) == IF a > b THEN a ELSE b

\* A block of a puzzle file: { id, latex }.
Block(id) == [id |-> id, latex |-> "latex-" \o id]

\* A puzzle object: { id, title, blocks, solutionOrder }.
MakePuzzle(order, catalog) ==
    [id |-> "proof1",
     title |-> "Puzzle",
     blocks |-> [i \in 1..Len(catalog) |-> Block(catalog[i])],
     solutionOrder |-> order]

BlockIdsOf(p) == {p.blocks[i].id : i \in DOMAIN p.blocks}

\* The Puzzle invariant: the canonical order has no duplicate id and covers
\* exactly the block catalog.
Bijection(p) ==
    /\ \A i, j \in DOMAIN p.solutionOrder :
          p.solutionOrder[i] = p.solutionOrder[j] => i = j
    /\ \A i, j \in DOMAIN p.blocks : p.blocks[i].id = p.blocks[j].id => i = j
    /\ SetOf(p.solutionOrder) = BlockIdsOf(p)

WellFormed(p) == Bijection(p) /\ Len(p.solutionOrder) > 0 /\ Len(p.blocks) > 0

\* Puzzles as the puzzle files define them: ids are only ever compared for
\* equality, so the canonical orders are taken up to renaming of the ids.
WellFormedPuzzles ==
    {MakePuzzle(Prefix(BlockIds, n), Prefix(BlockIds, n)) : n \in 1..Len(BlockIds)}

\* A puzzle of five blocks, the smallest on which a learner order can call for
\* more than three hints.
LongPuzzle == MakePuzzle(LongBlockIds, LongBlockIds)

\* Two puzzles whose canonical order is not the order of the catalog.
PermutedPuzzles ==
    {MakePuzzle(<<"b", "a">>, <<"a", "b">>),
     MakePuzzle(<<"c", "a", "b">>, <<"a", "b", "c">>)}

\* Puzzle data that breaks the Puzzle invariant, one puzzle for each way:
\* nothing at all, an empty canonical order, an empty catalog, a duplicate
\* canonical id, a canonical id outside the catalog, a catalog id outside
\* the canonical order.
MalformedPuzzles ==
    {MakePuzzle(<<>>, <<>>),
     MakePuzzle(<<>>, <<"a">>),
     MakePuzzle(<<"a">>, <<>>),
     MakePuzzle(<<"a", "a">>, <<"a">>),
     MakePuzzle(<<"a", "b", "c", "c">>, <<"a", "b", "c">>),
     MakePuzzle(<<"a", "b">>, <<"a">>),
     MakePuzzle(<<"a">>, <<"a", "b">>)}

Puzzles ==
    WellFormedPuzzles \cup {LongPuzzle} \cup PermutedPuzzles \cup MalformedPuzzles

\* The learner orders tried on a puzzle: its own ids and one id of another
\* puzzle, in any order, with repetitions, up to MaxUserLen entries (up to
\* MaxLongUserLen entries on the five-block puzzle).
Alphabet(p) == BlockIdsOf(p) \cup SetOf(p.solutionOrder) \cup {Foreign}
UserOrders(p) ==
    SeqsUpTo(Alphabet(p), IF p = LongPuzzle THEN MaxLongUserLen ELSE MaxUserLen)

----------------------------------------------------------------------------
(* class ProofValidator *)

\* new Map() without the entries of puzzle.blocks.
NewBlockMap_empty(blocks) == [id \in {} |-> id]

\* new Map(puzzle.blocks.map(block => [block.id, block])): a later block of
\* the same id replaces an earlier one.
NewBlockMap(blocks) ==
    [id \in {blocks[i].id : i \in DOMAIN blocks} |->
        blocks[CHOOSE i \in DOMAIN blocks :
                  /\ blocks[i].id = id
                  /\ \A j \in DOMAIN blocks : blocks[j].id = id => j <= i]]

\* constructor(puzzle)
NewProofValidator(p) ==
    [puzzle |-> p,
     solutionOrder |-> p.solutionOrder,
     blockMap |-> NewBlockMap(p.blocks)]

\* validateBlockIds with isValid: validBlocks.length > 0.
validateBlockIds_anyValid(self, order) ==
    LET validBlockIds == {self.puzzle.blocks[i].id : i \in DOMAIN self.puzzle.blocks}
        invalidBlocks == SelectSeq(order, LAMBDA id : id \notin validBlockIds)
        validBlocks == SelectSeq(order, LAMBDA id : id \in validBlockIds)
    IN  [isValid |-> Len(validBlocks) > 0,
         invalidBlocks |-> invalidBlocks,
         validBlocks |-> validBlocks,
         puzzleId |-> self.puzzle.id,
         puzzleTitle |-> self.puzzle.title]

\* validateBlockIds with isValid: true whatever the ids are.
validateBlockIds_lenient(self, order) ==
    LET validBlockIds == {self.puzzle.blocks[i].id : i \in DOMAIN self.puzzle.blocks}
        invalidBlocks == SelectSeq(order, LAMBDA id : id \notin validBlockIds)
        validBlocks == SelectSeq(order, LAMBDA id : id \in validBlockIds)
    IN  [isValid |-> TRUE,
         invalidBlocks |-> invalidBlocks,
         validBlocks |-> validBlocks,
         puzzleId |-> self.puzzle.id,
         puzzleTitle |-> self.puzzle.title]

\* validateBlockIds with validBlockIds = new Set(this.solutionOrder).
validateBlockIds_bySolution(self, order) ==
    LET validBlockIds == SetOf(self.solutionOrder)
        invalidBlocks == SelectSeq(order, LAMBDA id : id \notin validBlockIds)
        validBlocks == SelectSeq(order, LAMBDA id : id \in validBlockIds)
    IN  [isValid |-> Len(invalidBlocks) = 0,
         invalidBlocks |-> invalidBlocks,
         validBlocks |-> validBlocks,
         puzzleId |-> self.puzzle.id,
         puzzleTitle |-> self.puzzle.title]

\* validateBlockIds(userOrder)
validateBlockIds(self, order) ==
    LET validBlockIds == {self.puzzle.blocks[i].id : i \in DOMAIN self.puzzle.blocks}
        invalidBlocks == SelectSeq(order, LAMBDA id : id \notin validBlockIds)
        validBlocks == SelectSeq(order, LAMBDA id : id \in validBlockIds)
    IN  [isValid |-> Len(invalidBlocks) = 0,
         invalidBlocks |-> invalidBlocks,
         validBlocks |-> validBlocks,
         puzzleId |-> self.puzzle.id,
         puzzleTitle |-> self.puzzle.title]

\* _isCorrectSequence with the bound test i >= this.solutionOrder.length - 1.
_isCorrectSequence_offByOne(self, order, start, end) ==
    ~ \E i \in start..(end - 1) :
          \/ i >= Len(self.solutionOrder) - 1
          \/ At(order, i) # At(self.solutionOrder, i)

\* _isCorrectSequence with the test !this.solutionOrder.includes(userOrder[i]).
_isCorrectSequence_anywhere(self, order, start, end) ==
    ~ \E i \in start..(end - 1) :
          \/ i >= Len(self.solutionOrder)
          \/ ~Includes(self.solutionOrder, At(order, i))

\* _isCorrectSequence(userOrder, start, end)
_isCorrectSequence(self, order, start, end) ==
    ~ \E i \in start..(end - 1) :
          \/ i >= Len(self.solutionOrder)
          \/ At(order, i) # At(self.solutionOrder, i)

\* _findDuplicates(userOrder): the forEach loop from index i on.
RECURSIVE FindDuplicatesFrom(_, _, _, _)
FindDuplicatesFrom(order, i, seen, duplicates) ==
    IF i >= Len(order) THEN duplicates
    ELSE IF At(order, i) \in seen
         THEN FindDuplicatesFrom(order, i + 1, seen,
                  Append(duplicates, [blockId |-> At(order, i), position |-> i]))
         ELSE FindDuplicatesFrom(order, i + 1, seen \cup {At(order, i)}, duplicates)

\* _findDuplicates with the forEach loop starting at index 1.
_findDuplicates_skipsFirst(order) == FindDuplicatesFrom(order, 1, {}, <<>>)

_findDuplicates(order) == FindDuplicatesFrom(order, 0, {}, <<>>)

\* const correctSequence = isComplete, without the positional test.
correctSequenceOf_noPositions(self, order, isComplete) == isComplete

\* const correctSequence = isComplete && this._isCorrectSequence(...) of
\* _analyzeSequence
correctSequenceOf(self, order, isComplete) ==
    isComplete /\ _isCorrectSequence(self, order, 0, Len(order))

\* _analyzeSequence with extraBlocks = userOrder.length - correctBlocksInSolution,
\* which counts a repeated entry as an extra block.
_analyzeSequence_extraByLength(self, order) ==
    LET solutionSet == SetOf(self.solutionOrder)
        userSet == SetOf(order)
        correctBlocksInSolution == Cardinality({id \in userSet : id \in solutionSet})
        extraBlocks == Len(order) - correctBlocksInSolution
        missingBlocks == Cardinality({id \in solutionSet : id \notin userSet})
        isComplete == /\ Len(order) = Len(self.solutionOrder)
                      /\ missingBlocks = 0
                      /\ extraBlocks = 0
        correctSequence == correctSequenceOf(self, order, isComplete)
        n == MathMin(Len(order), Len(self.solutionOrder))
        positions == [k \in 1..n |-> k - 1]
        right == SelectSeq(positions,
                     LAMBDA i : At(order, i) = At(self.solutionOrder, i))
        wrong == SelectSeq(positions,
                     LAMBDA i : At(order, i) # At(self.solutionOrder, i))
    IN  [totalBlocks |-> Len(self.solutionOrder),
         userBlocks |-> Len(order),
         correctBlocks |-> correctBlocksInSolution,
         extraBlocks |-> extraBlocks,
         missingBlocks |-> missingBlocks,
         isComplete |-> isComplete,
         correctSequence |-> correctSequence,
         correctlyPositioned |->
             [k \in 1..Len(right) |->
                 [blockId |-> At(order, right[k]), position |-> right[k]]],
         incorrectlyPositioned |->
             [k \in 1..Len(wrong) |->
                 [blockId |-> At(order, wrong[k]),
                  position |-> wrong[k],
                  expectedBlockId |-> At(self.solutionOrder, wrong[k])]],
         duplicates |-> _findDuplicates(order)]

\* _analyzeSequence with the positional loop stopping one index early
\* (i < Math.min(...) - 1).
_analyzeSequence_skipsLast(self, order) ==
    LET solutionSet == SetOf(self.solutionOrder)
        userSet == SetOf(order)
        correctBlocksInSolution == Cardinality({id \in userSet : id \in solutionSet})
        extraBlocks == Cardinality({id \in userSet : id \notin solutionSet})
        missingBlocks == Cardinality({id \in solutionSet : id \notin userSet})
        isComplete == /\ Len(order) = Len(self.solutionOrder)
                      /\ missingBlocks = 0
                      /\ extraBlocks = 0
        correctSequence == correctSequenceOf(self, order, isComplete)
        n == MathMax(MathMin(Len(order), Len(self.solutionOrder)) - 1, 0)
        positions == [k \in 1..n |-> k - 1]
        right == SelectSeq(positions,
                     LAMBDA i : At(order, i) = At(self.solutionOrder, i))
        wrong == SelectSeq(positions,
                     LAMBDA i : At(order, i) # At(self.solutionOrder, i))
    IN  [totalBlocks |-> Len(self.solutionOrder),
         userBlocks |-> Len(order),
         correctBlocks |-> correctBlocksInSolution,
         extraBlocks |-> extraBlocks,
         missingBlocks |-> missingBlocks,
         isComplete |-> isComplete,
         correctSequence |-> correctSequence,
         correctlyPositioned |->
             [k \in 1..Len(right) |->
                 [blockId |-> At(order, right[k]), position |-> right[k]]],
         incorrectlyPositioned |->
             [k \in 1..Len(wrong) |->
                 [blockId |-> At(order, wrong[k]),
                  position |-> wrong[k],
                  expectedBlockId |-> At(self.solutionOrder, wrong[k])]],
         duplicates |-> _findDuplicates(order)]

\* _analyzeSequence(userOrder)
_analyzeSequence(self, order) ==
    LET solutionSet == SetOf(self.solutionOrder)
        userSet == SetOf(order)
        correctBlocksInSolution == Cardinality({id \in userSet : id \in solutionSet})
        extraBlocks == Cardinality({id \in userSet : id \notin solutionSet})
        missingBlocks == Cardinality({id \in solutionSet : id \notin userSet})
        isComplete == /\ Len(order) = Len(self.solutionOrder)
                      /\ missingBlocks = 0
                      /\ extraBlocks = 0
        correctSequence == correctSequenceOf(self, order, isComplete)
        n == MathMin(Len(order), Len(self.solutionOrder))
        positions == [k \in 1..n |-> k - 1]
        right == SelectSeq(positions,
                     LAMBDA i : At(order, i) = At(self.solutionOrder, i))
        wrong == SelectSeq(positions,
                     LAMBDA i : At(order, i) # At(self.solutionOrder, i))
    IN  [totalBlocks |-> Len(self.solutionOrder),
         userBlocks |-> Len(order),
         correctBlocks |-> correctBlocksInSolution,
         extraBlocks |-> extraBlocks,
         missingBlocks |-> missingBlocks,
         isComplete |-> isComplete,
         correctSequence |-> correctSequence,
         correctlyPositioned |->
             [k \in 1..Len(right) |->
                 [blockId |-> At(order, right[k]), position |-> right[k]]],
         incorrectlyPositioned |->
             [k \in 1..Len(wrong) |->
                 [blockId |-> At(order, wrong[k]),
                  position |-> wrong[k],
                  expectedBlockId |-> At(self.solutionOrder, wrong[k])]],
         duplicates |-> _findDuplicates(order)]

\* The value of 0/0 in _calculateScore (any comparison with it is false).
NaN == 0 - 1

\* Math.floor in the place of Math.round.
MathRound_floor(num, den) == num \div den

\* Math.round of the rational num/den (den > 0): the nearest integer, a half
\* rounding up.
MathRound(num, den) == (2 * num + den) \div (2 * den)

\* _calculateScore with presenceScore weighted 60 like positionScore.
_calculateScore_weights(r) ==
    IF r.correctSequence THEN 100
    ELSE IF r.totalBlocks = 0 THEN NaN
    ELSE LET positionScoreNum == Len(r.correctlyPositioned) * 60
             presenceScoreNum == r.correctBlocks * 60
             extraPenalty == MathMin(r.extraBlocks * 5, 20)
         IN  MathMax(0, MathRound(positionScoreNum + presenceScoreNum
                                     - extraPenalty * r.totalBlocks,
                                  r.totalBlocks))

\* _calculateScore(result): positionScore + presenceScore - extraPenalty is
\* the rational (60*|correctlyPositioned| + 40*correctBlocks)/totalBlocks
\* - extraPenalty; with totalBlocks = 0 both quotients are 0/0.
_calculateScore(r) ==
    IF r.correctSequence THEN 100
    ELSE IF r.totalBlocks = 0 THEN NaN
    ELSE LET positionScoreNum == Len(r.correctlyPositioned) * 60
             presenceScoreNum == r.correctBlocks * 40
             extraPenalty == MathMin(r.extraBlocks * 5, 20)
         IN  MathMax(0, MathRound(positionScoreNum + presenceScoreNum
                                     - extraPenalty * r.totalBlocks,
                                  r.totalBlocks))

\* Array.prototype.join(' ')
RECURSIVE Join(_)
Join(strings) ==
    IF Len(strings) = 0 THEN ""
    ELSE IF Len(strings) = 1 THEN strings[1]
    ELSE strings[1] \o " " \o Join(Tail(strings))

ExcellentText == "(tada) Excellent! Your proof is completely correct!"
KeepWorkingText == "Keep working on your proof!"
ArrangeText == "Please arrange the proof blocks to create a valid proof."
MissingClause(n) == "(x) Missing " \o ToString(n) \o " block(s) from your proof."
ExtraClause(n) == "(warning) You have " \o ToString(n) \o " extra or incorrect block(s)."
DuplicateClause(n) == "(repeat) You have " \o ToString(n) \o " duplicate block(s)."
WrongClause(n) == "(pin) " \o ToString(n) \o " block(s) are in the wrong position."
RightClause(n) == "(check) " \o ToString(n) \o " block(s) are correctly positioned."
MismatchText(title) ==
    "Error: Some blocks don't belong to the current puzzle \"" \o title
        \o "\". Please refresh the page."

\* _generateFeedback pushing the correctly-positioned clause before the
\* wrong-position clause.
_generateFeedback_rightFirst(r) ==
    IF r.correctSequence THEN ExcellentText
    ELSE LET f1 == IF r.missingBlocks > 0
                   THEN <<MissingClause(r.missingBlocks)>> ELSE <<>>
             f2 == IF r.extraBlocks > 0
                   THEN Append(f1, ExtraClause(r.extraBlocks)) ELSE f1
             f3 == IF Len(r.duplicates) > 0
                   THEN Append(f2, DuplicateClause(Len(r.duplicates))) ELSE f2
             f4 == IF Len(r.correctlyPositioned) > 0
                   THEN Append(f3, RightClause(Len(r.correctlyPositioned))) ELSE f3
             f5 == IF Len(r.incorrectlyPositioned) > 0
                   THEN Append(f4, WrongClause(Len(r.incorrectlyPositioned))) ELSE f4
         IN  IF Len(f5) > 0 THEN Join(f5) ELSE KeepWorkingText

\* _generateFeedback(result)
_generateFeedback(r) ==
    IF r.correctSequence THEN ExcellentText
    ELSE LET f1 == IF r.missingBlocks > 0
                   THEN <<MissingClause(r.missingBlocks)>> ELSE <<>>
             f2 == IF r.extraBlocks > 0
                   THEN Append(f1, ExtraClause(r.extraBlocks)) ELSE f1
             f3 == IF Len(r.duplicates) > 0
                   THEN Append(f2, DuplicateClause(Len(r.duplicates))) ELSE f2
             f4 == IF Len(r.incorrectlyPositioned) > 0
                   THEN Append(f3, WrongClause(Len(r.incorrectlyPositioned))) ELSE f3
             f5 == IF Len(r.correctlyPositioned) > 0
                   THEN Append(f4, RightClause(Len(r.correctlyPositioned))) ELSE f4
         IN  IF Len(f5) > 0 THEN Join(f5) ELSE KeepWorkingText

\* getNextExpectedBlock returning this.solutionOrder[currentOrder.length]
\* whether or not the current sequence is correct.
getNextExpectedBlock_afterPrefix(self, currentOrder) ==
    IF Len(currentOrder) >= Len(self.solutionOrder) THEN NULL
    ELSE At(self.solutionOrder, Len(currentOrder))

\* getNextExpectedBlock with the loop over the incorrect positions running
\* from the last index down.
getNextExpectedBlock_lastDivergence(self, currentOrder) ==
    IF Len(currentOrder) >= Len(self.solutionOrder) THEN NULL
    ELSE IF _isCorrectSequence(self, currentOrder, 0, Len(currentOrder))
         THEN At(self.solutionOrder, Len(currentOrder))
         ELSE LET bad == {i \in 0..(Len(currentOrder) - 1) :
                             At(currentOrder, i) # At(self.solutionOrder, i)}
              IN  IF bad = {} THEN NULL
                  ELSE At(self.solutionOrder,
                          CHOOSE i \in bad : \A j \in bad : i >= j)

\* getNextExpectedBlock(currentOrder)
getNextExpectedBlock(self, currentOrder) ==
    IF Len(currentOrder) >= Len(self.solutionOrder) THEN NULL
    ELSE IF _isCorrectSequence(self, currentOrder, 0, Len(currentOrder))
         THEN At(self.solutionOrder, Len(currentOrder))
         ELSE LET bad == {i \in 0..(Len(currentOrder) - 1) :
                             At(currentOrder, i) # At(self.solutionOrder, i)}
              IN  IF bad = {} THEN NULL
                  ELSE At(self.solutionOrder,
                          CHOOSE i \in bad : \A j \in bad : i <= j)

\* The position hint with the 0-based position in its message.
PositionHint_zeroBased(block, firstError) ==
    [type |-> "position",
     message |-> "The block at position " \o ToString(firstError.position)
                     \o " should be:",
     latex |-> block.latex,
     position |-> firstError.position,
     expectedBlockId |-> firstError.expectedBlockId]

\* The hints of _generateHints, each with the fields the source gives it.
PositionHint(block, firstError) ==
    [type |-> "position",
     message |-> "The block at position " \o ToString(firstError.position + 1)
                     \o " should be:",
     latex |-> block.latex,
     position |-> firstError.position,
     expectedBlockId |-> firstError.expectedBlockId]

BlockHint(type, message, block, blockId) ==
    [type |-> type, message |-> message, latex |-> block.latex, blockId |-> blockId]

ErrorHint ==
    [type |-> "error",
     message |-> "Please refresh the page - there seems to be a puzzle mismatch.",
     latex |-> "",
     blockId |-> NULL]

\* The last loop of _generateHints without the test hints.length < 3.
RECURSIVE FillHintsFrom_noCap(_, _, _, _)
FillHintsFrom_noCap(self, missingIds, i, hints) ==
    IF ~(i < Len(missingIds)) THEN hints
    ELSE IF At(missingIds, i) \in DOMAIN self.blockMap
         THEN FillHintsFrom_noCap(self, missingIds, i + 1,
                  Append(hints, [type |-> "missing",
                                 message |-> "Consider this step:",
                                 latex |-> self.blockMap[At(missingIds, i)].latex,
                                 blockId |-> At(missingIds, i)]))
         ELSE FillHintsFrom_noCap(self, missingIds, i + 1, hints)

\* The last loop of _generateHints with the test hints.length < 2.
RECURSIVE FillHintsFrom_stopsAtTwo(_, _, _, _)
FillHintsFrom_stopsAtTwo(self, missingIds, i, hints) ==
    IF ~(i < Len(missingIds) /\ Len(hints) < 2) THEN hints
    ELSE IF At(missingIds, i) \in DOMAIN self.blockMap
         THEN FillHintsFrom_stopsAtTwo(self, missingIds, i + 1,
                  Append(hints, BlockHint("missing", "Consider this step:",
                                          self.blockMap[At(missingIds, i)],
                                          At(missingIds, i))))
         ELSE FillHintsFrom_stopsAtTwo(self, missingIds, i + 1, hints)

\* The last loop of _generateHints, from index i on: missingIds was filtered
\* once, before the loop.
RECURSIVE FillHintsFrom(_, _, _, _)
FillHintsFrom(self, missingIds, i, hints) ==
    IF ~(i < Len(missingIds) /\ Len(hints) < 3) THEN hints
    ELSE IF At(missingIds, i) \in DOMAIN self.blockMap
         THEN FillHintsFrom(self, missingIds, i + 1,
                  Append(hints, BlockHint("missing", "Consider this step:",
                                          self.blockMap[At(missingIds, i)],
                                          At(missingIds, i))))
         ELSE FillHintsFrom(self, missingIds, i + 1, hints)

\* _generateHints with the missing-block pass not testing !usedBlocks.has(blockId).
_generateHints_missingIgnoresUsed(self, r, order) ==
    IF r.correctSequence THEN [ret |-> <<>>, console |-> <<>>]
    ELSE IF ~validateBlockIds(self, order).isValid
    THEN [ret |-> <<ErrorHint>>,
          console |-> <<[message |->
              "ProofValidator: Cannot generate hints due to puzzle mismatch"]>>]
    ELSE
    LET s0 == [hints |-> <<>>, usedBlocks |-> {}]
        \* Hint about first incorrect position
        s1 == IF Len(r.incorrectlyPositioned) > 0
              THEN LET firstError == r.incorrectlyPositioned[1]
                   IN  IF /\ firstError.expectedBlockId \in DOMAIN self.blockMap
                          /\ firstError.expectedBlockId \notin s0.usedBlocks
                       THEN [hints |-> Append(s0.hints,
                                PositionHint(self.blockMap[firstError.expectedBlockId],
                                             firstError)),
                             usedBlocks |-> s0.usedBlocks
                                              \cup {firstError.expectedBlockId}]
                       ELSE s0
              ELSE s0
        \* Hint about missing blocks: the first id of the solution order that
        \* passes the two tests, then break
        found == SelectSeq(self.solutionOrder,
                     LAMBDA blockId : /\ ~Includes(order, blockId)
                                      /\ blockId \in DOMAIN self.blockMap)
        s2 == IF r.missingBlocks > 0 /\ Len(s1.hints) < 3 /\ Len(found) > 0
              THEN [hints |-> Append(s1.hints,
                        BlockHint("missing", "You're missing this important step:",
                                  self.blockMap[found[1]], found[1])),
                    usedBlocks |-> s1.usedBlocks \cup {found[1]}]
              ELSE s1
        \* Hint about next expected block
        nextExpected == getNextExpectedBlock(self, order)
        s3 == IF /\ Len(order) < Len(self.solutionOrder)
                 /\ Len(s2.hints) < 3
                 /\ nextExpected # NULL
                 /\ nextExpected \notin s2.usedBlocks
                 /\ nextExpected \in DOMAIN self.blockMap
              THEN [hints |-> Append(s2.hints,
                        BlockHint("next", "Try adding this block next:",
                                  self.blockMap[nextExpected], nextExpected)),
                    usedBlocks |-> s2.usedBlocks \cup {nextExpected}]
              ELSE s2
        \* Additional missing blocks
        missingIds == SelectSeq(self.solutionOrder,
                          LAMBDA id : ~Includes(order, id) /\ id \notin s3.usedBlocks)
    IN  [ret |-> IF Len(s3.hints) < 3 /\ r.missingBlocks > 0
                 THEN FillHintsFrom(self, missingIds, 0, s3.hints)
                 ELSE s3.hints,
         console |-> <<>>]

\* _generateHints(result, userOrder): the returned hints and the console
\* entries written.  hints and usedBlocks are threaded through the four
\* passes as the pairs s1..s3.
_generateHints(self, r, order) ==
    IF r.correctSequence THEN [ret |-> <<>>, console |-> <<>>]
    ELSE IF ~validateBlockIds(self, order).isValid
    THEN [ret |-> <<ErrorHint>>,
          console |-> <<[message |->
              "ProofValidator: Cannot generate hints due to puzzle mismatch"]>>]
    ELSE
    LET s0 == [hints |-> <<>>, usedBlocks |-> {}]
        \* Hint about first incorrect position
        s1 == IF Len(r.incorrectlyPositioned) > 0
              THEN LET firstError == r.incorrectlyPositioned[1]
                   IN  IF /\ firstError.expectedBlockId \in DOMAIN self.blockMap
                          /\ firstError.expectedBlockId \notin s0.usedBlocks
                       THEN [hints |-> Append(s0.hints,
                                PositionHint(self.blockMap[firstError.expectedBlockId],
                                             firstError)),
                             usedBlocks |-> s0.usedBlocks
                                              \cup {firstError.expectedBlockId}]
                       ELSE s0
              ELSE s0
        \* Hint about missing blocks: the first id of the solution order that
        \* passes the three tests, then break
        found == SelectSeq(self.solutionOrder,
                     LAMBDA blockId : /\ ~Includes(order, blockId)
                                      /\ blockId \notin s1.usedBlocks
                                      /\ blockId \in DOMAIN self.blockMap)
        s2 == IF r.missingBlocks > 0 /\ Len(s1.hints) < 3 /\ Len(found) > 0
              THEN [hints |-> Append(s1.hints,
                        BlockHint("missing", "You're missing this important step:",
                                  self.blockMap[found[1]], found[1])),
                    usedBlocks |-> s1.usedBlocks \cup {found[1]}]
              ELSE s1
        \* Hint about next expected block
        nextExpected == getNextExpectedBlock(self, order)
        s3 == IF /\ Len(order) < Len(self.solutionOrder)
                 /\ Len(s2.hints) < 3
                 /\ nextExpected # NULL
                 /\ nextExpected \notin s2.usedBlocks
                 /\ nextExpected \in DOMAIN self.blockMap
              THEN [hints |-> Append(s2.hints,
                        BlockHint("next", "Try adding this block next:",
                                  self.blockMap[nextExpected], nextExpected)),
                    usedBlocks |-> s2.usedBlocks \cup {nextExpected}]
              ELSE s2
        \* Additional missing blocks
        missingIds == SelectSeq(self.solutionOrder,
                          LAMBDA id : ~Includes(order, id) /\ id \notin s3.usedBlocks)
    IN  [ret |-> IF Len(s3.hints) < 3 /\ r.missingBlocks > 0
                 THEN FillHintsFrom(self, missingIds, 0, s3.hints)
                 ELSE s3.hints,
         console |-> <<>>]

\* validateProof without its first test.
isEmptyOrder_never(order) == FALSE

\* !userOrder || userOrder.length === 0, for an array
isEmptyOrder(order) == Len(order) = 0

\* validateProof(userOrder): the returned object, the console entries written
\* and the methods its body invoked.
validateProof(self, order) ==
    IF isEmptyOrder(order)
    THEN [ret |-> [isCorrect |-> FALSE,
                   score |-> 0,
                   feedback |-> ArrangeText,
                   details |-> [totalBlocks |-> Len(self.solutionOrder),
                                correctBlocks |-> 0,
                                incorrectBlocks |-> 0,
                                missingBlocks |-> Len(self.solutionOrder),
                                extraBlocks |-> 0]],
          console |-> <<>>,
          trace |-> <<>>]
    ELSE
    LET blockValidation == validateBlockIds(self, order)
    IN  IF ~blockValidation.isValid
        THEN [ret |-> [isCorrect |-> FALSE,
                       score |-> 0,
                       feedback |-> MismatchText(self.puzzle.title),
                       details |-> [totalBlocks |-> Len(self.solutionOrder),
                                    correctBlocks |-> 0,
                                    incorrectBlocks |-> Len(order),
                                    missingBlocks |-> Len(self.solutionOrder),
                                    extraBlocks |-> Len(order),
                                    puzzleMismatch |-> TRUE,
                                    invalidBlocks |-> blockValidation.invalidBlocks],
                       hints |-> <<>>],
              console |-> <<[message |-> "ProofValidator: Block ID mismatch detected",
                             puzzleId |-> self.puzzle.id,
                             puzzleTitle |-> self.puzzle.title,
                             invalidBlocks |-> blockValidation.invalidBlocks,
                             userOrder |-> order]>>,
              trace |-> <<"validateBlockIds">>]
        ELSE
        LET r == _analyzeSequence(self, order)
            feedback == _generateFeedback(r)
            hints == _generateHints(self, r, order)
        IN  [ret |-> [isCorrect |-> r.isComplete /\ r.correctSequence,
                      score |-> _calculateScore(r),
                      feedback |-> feedback,
                      details |-> r,
                      hints |-> hints.ret],
             console |-> hints.console,
             trace |-> <<"validateBlockIds", "_analyzeSequence", "_generateFeedback",
                         "_calculateScore", "_generateHints">>]

\* The number a/b of validatePartial's progress, kept as the fraction.
Quotient(a, b) == [num |-> a, den |-> b]

\* solutionOrder[0] of an empty array, in validatePartial.
Undefined == "undefined"

\* validatePartial with correctSoFar = this._isCorrectSequence(userOrder, 1,
\* userOrder.length).
validatePartial_fromSecond(self, order) ==
    IF isEmptyOrder(order)
    THEN [isValid |-> TRUE,
          correctSoFar |-> TRUE,
          nextExpected |-> IF Len(self.solutionOrder) > 0
                           THEN At(self.solutionOrder, 0) ELSE Undefined,
          progress |-> Quotient(0, 1)]
    ELSE
    LET correctSoFar == _isCorrectSequence(self, order, 1, Len(order))
        nextExpectedIndex == Len(order)
        nextExpected == IF nextExpectedIndex < Len(self.solutionOrder)
                        THEN At(self.solutionOrder, nextExpectedIndex)
                        ELSE NULL
    IN  [isValid |-> correctSoFar,
         correctSoFar |-> correctSoFar,
         nextExpected |-> nextExpected,
         progress |-> Quotient(Len(order) * 100, Len(self.solutionOrder)),
         currentLength |-> Len(order),
         totalLength |-> Len(self.solutionOrder)]

\* validatePartial(userOrder)
validatePartial(self, order) ==
    IF isEmptyOrder(order)
    THEN [isValid |-> TRUE,
          correctSoFar |-> TRUE,
          nextExpected |-> IF Len(self.solutionOrder) > 0
                           THEN At(self.solutionOrder, 0) ELSE Undefined,
          progress |-> Quotient(0, 1)]
    ELSE
    LET correctSoFar == _isCorrectSequence(self, order, 0, Len(order))
        nextExpectedIndex == Len(order)
        nextExpected == IF nextExpectedIndex < Len(self.solutionOrder)
                        THEN At(self.solutionOrder, nextExpectedIndex)
                        ELSE NULL
    IN  [isValid |-> correctSoFar,
         correctSoFar |-> correctSoFar,
         nextExpected |-> nextExpected,
         progress |-> Quotient(Len(order) * 100, Len(self.solutionOrder)),
         currentLength |-> Len(order),
         totalLength |-> Len(self.solutionOrder)]

\* canPlaceBlock without the loop over the previous positions.
canPlaceBlock_noPrefix(self, blockId, position, currentOrder) ==
    IF position < 0 \/ position >= Len(self.solutionOrder) THEN FALSE
    ELSE At(self.solutionOrder, position) = blockId

\* canPlaceBlock(blockId, position, currentOrder)
canPlaceBlock(self, blockId, position, currentOrder) ==
    IF position < 0 \/ position >= Len(self.solutionOrder) THEN FALSE
    ELSE IF At(self.solutionOrder, position) # blockId THEN FALSE
    ELSE ~ \E i \in 0..(position - 1) :
               \/ i >= Len(currentOrder)
               \/ At(currentOrder, i) # At(self.solutionOrder, i)

\* debugValidation(userOrder)
debugValidation(self, order) ==
    LET r == _analyzeSequence(self, order)
        hints == _generateHints(self, r, order)
        validation == validateProof(self, order)
    IN  [ret |-> [puzzle |-> [id |-> self.puzzle.id,
                              title |-> self.puzzle.title,
                              totalBlocks |-> Len(self.solutionOrder),
                              solutionOrder |-> self.solutionOrder],
                  userInput |-> [userOrder |-> order, userBlocks |-> Len(order)],
                  analysis |-> r,
                  hints |-> hints.ret,
                  validation |-> validation.ret],
         console |-> hints.console \o validation.console,
         trace |-> <<"_analyzeSequence", "_generateHints", "validateProof">>]

----------------------------------------------------------------------------
(* The caller: it constructs the validator, then makes one call at a time   *)
(* (JavaScript runs each call to completion) and takes the returned value.  *)

\* useState(null) of ProofValidationDisplay: no validation result on display.
NullResult == [displayed |-> FALSE]

\* The lists of PuzzleDisplay as useState([]) creates them, no handler or
\* effect having run.
NotMounted ==
    /\ availableBlocks = <<>>
    /\ proofBlocks = <<>>
    /\ pending = [availableBlocks |-> <<>>, proofBlocks |-> <<>>]
    /\ batch = <<>>
    /\ committed = <<>>
    /\ validationResult = NullResult

Idle == [op |-> "none"]
NoValidation == [returned |-> FALSE]

Init ==
    /\ puzzle \in Puzzles
    /\ userOrder \in UserOrders(puzzle)
    /\ validator = NoValidator
    /\ call = Idle
    /\ result = NULL
    /\ thrown = NoError
    /\ console = <<>>
    /\ trace = <<>>
    /\ earlier = NoValidation
    /\ NotMounted

\* new ProofValidator(puzzle): the constructor has no check and no throw.
Construct ==
    /\ call = Idle
    /\ validator = NoValidator
    /\ validator' = NewProofValidator(puzzle)
    /\ call' = [op |-> "constructor"]
    /\ result' = NULL
    /\ thrown' = NoError
    /\ console' = <<>>
    /\ trace' = <<>>
    /\ UNCHANGED <<puzzle, userOrder, earlier, displayVars>>

\* validateProof taking the entries off the caller's array as it reads them
\* (userOrder.pop()).
ValidateProof_popsOrder ==
    /\ call = Idle
    /\ validator # NoValidator
    /\ LET r == validateProof(validator, userOrder)
       IN  /\ result' = r.ret
           /\ console' = r.console
           /\ trace' = r.trace
    /\ call' = [op |-> "validateProof", userOrder |-> userOrder]
    /\ thrown' = NoError
    /\ userOrder' = IF Len(userOrder) > 0
                    THEN SubSeq(userOrder, 1, Len(userOrder) - 1) ELSE userOrder
    /\ UNCHANGED <<puzzle, validator, earlier, displayVars>>

\* validator.validateProof(userOrder)
ValidateProof ==
    /\ call = Idle
    /\ validator # NoValidator
    /\ LET r == validateProof(validator, userOrder)
       IN  /\ result' = r.ret
           /\ console' = r.console
           /\ trace' = r.trace
    /\ call' = [op |-> "validateProof", userOrder |-> userOrder]
    /\ thrown' = NoError
    /\ UNCHANGED <<puzzle, userOrder, validator, earlier, displayVars>>

\* validatePartial taking the next expected id off the instance's array
\* (this.solutionOrder.shift()).
ValidatePartial_consumes ==
    /\ call = Idle
    /\ validator # NoValidator
    /\ result' = validatePartial(validator, userOrder)
    /\ call' = [op |-> "validatePartial", userOrder |-> userOrder]
    /\ thrown' = NoError
    /\ console' = <<>>
    /\ trace' = IF Len(userOrder) = 0 THEN <<>> ELSE <<"_isCorrectSequence">>
    /\ validator' = [validator EXCEPT
                        !.solutionOrder = IF Len(@) > 0 THEN Tail(@) ELSE @]
    /\ UNCHANGED <<puzzle, userOrder, earlier, displayVars>>

\* validator.validatePartial(userOrder)
ValidatePartial ==
    /\ call = Idle
    /\ validator # NoValidator
    /\ result' = validatePartial(validator, userOrder)
    /\ call' = [op |-> "validatePartial", userOrder |-> userOrder]
    /\ thrown' = NoError
    /\ console' = <<>>
    /\ trace' = IF Len(userOrder) = 0 THEN <<>> ELSE <<"_isCorrectSequence">>
    /\ UNCHANGED <<puzzle, userOrder, validator, earlier, displayVars>>

\* validator.canPlaceBlock(blockId, userOrder.length, userOrder): is blockId
\* the block to append to the current arrangement
CanPlaceBlock ==
    /\ call = Idle
    /\ validator # NoValidator
    /\ \E blockId \in Alphabet(puzzle) :
          /\ result' = canPlaceBlock(validator, blockId, Len(userOrder), userOrder)
          /\ call' = [op |-> "canPlaceBlock", blockId |-> blockId,
                      position |-> Len(userOrder), currentOrder |-> userOrder]
    /\ thrown' = NoError
    /\ console' = <<>>
    /\ trace' = <<>>
    /\ UNCHANGED <<puzzle, userOrder, validator, earlier, displayVars>>

\* validator.getNextExpectedBlock(userOrder)
GetNextExpectedBlock ==
    /\ call = Idle
    /\ validator # NoValidator
    /\ result' = getNextExpectedBlock(validator, userOrder)
    /\ call' = [op |-> "getNextExpectedBlock", currentOrder |-> userOrder]
    /\ thrown' = NoError
    /\ console' = <<>>
    /\ trace' = IF Len(userOrder) >= Len(validator.solutionOrder)
                THEN <<>> ELSE <<"_isCorrectSequence">>
    /\ UNCHANGED <<puzzle, userOrder, validator, earlier, displayVars>>

\* validator.validateBlockIds(userOrder)
ValidateBlockIds ==
    /\ call = Idle
    /\ validator # NoValidator
    /\ result' = validateBlockIds(validator, userOrder)
    /\ call' = [op |-> "validateBlockIds", userOrder |-> userOrder]
    /\ thrown' = NoError
    /\ console' = <<>>
    /\ trace' = <<>>
    /\ UNCHANGED <<puzzle, userOrder, validator, earlier, displayVars>>

\* validator.debugValidation(userOrder)
DebugValidation ==
    /\ call = Idle
    /\ validator # NoValidator
    /\ LET r == debugValidation(validator, userOrder)
       IN  /\ result' = r.ret
           /\ console' = r.console
           /\ trace' = r.trace
    /\ call' = [op |-> "debugValidation", userOrder |-> userOrder]
    /\ thrown' = NoError
    /\ UNCHANGED <<puzzle, userOrder, validator, earlier, displayVars>>

\* The call returns to the caller that made it; the caller above keeps the
\* first validation result it was given (setValidationResult(result)).
Return ==
    /\ call # Idle
    /\ earlier' = IF /\ call.op = "validateProof"
                     /\ "caller" \notin DOMAIN call
                     /\ earlier = NoValidation
                  THEN [returned |-> TRUE, value |-> result]
                  ELSE earlier
    /\ call' = Idle
    /\ result' = NULL
    /\ thrown' = NoError
    /\ console' = <<>>
    /\ trace' = <<>>
    /\ UNCHANGED <<puzzle, userOrder, validator, displayVars>>

Next ==
    \/ Construct
    \/ ValidateProof
    \/ ValidatePartial
    \/ CanPlaceBlock
    \/ GetNextExpectedBlock
    \/ ValidateBlockIds
    \/ DebugValidation
    \/ Return

Spec == Init /\ [][Next]_vars

----------------------------------------------------------------------------
(* Properties *)

Validated == call.op = "validateProof"
Canonical == puzzle.solutionOrder
HasForeignId(order) == \E i \in DOMAIN order : order[i] \notin BlockIdsOf(puzzle)
OnlyPuzzleIds(order) == \A i \in DOMAIN order : order[i] \in BlockIdsOf(puzzle)
FourBlockPuzzle == MakePuzzle(BlockIds, BlockIds)

\* C1: on a puzzle whose canonical order and block catalog are a bijection,
\* validateProof of the canonical order returns isCorrect = true, score = 100
\* and an empty hint list.  (The empty learner order is the case of C5, so
\* the canonical order is a non-empty one.)
C1_CanonicalOrderIsCorrect ==
    (/\ Validated
     /\ Bijection(puzzle)
     /\ call.userOrder # <<>>
     /\ call.userOrder = Canonical)
        => /\ result.isCorrect = TRUE
           /\ result.score = 100
           /\ result.hints = <<>>

C1_Witness ==
    /\ Validated
    /\ puzzle = FourBlockPuzzle
    /\ call.userOrder = BlockIds
    /\ result.isCorrect
    /\ result.score = 100

\* C2: for a non-empty learner order made only of ids of the bound puzzle,
\* isCorrect is true exactly when the learner order has the canonical length
\* and equals the canonical order at every index; so a proper prefix of the
\* canonical order and the canonical order followed by further entries are
\* not correct.
C2_CorrectIffExactMatch ==
    (/\ Validated
     /\ call.userOrder # <<>>
     /\ OnlyPuzzleIds(call.userOrder))
        => (result.isCorrect <=>
               /\ Len(call.userOrder) = Len(Canonical)
               /\ \A i \in 1..Len(Canonical) : call.userOrder[i] = Canonical[i])

C2_Witness ==
    /\ Validated
    /\ puzzle = FourBlockPuzzle
    /\ \/ call.userOrder = Append(BlockIds, "a")
       \/ call.userOrder = Prefix(BlockIds, 2)
    /\ result.isCorrect = FALSE

C4_MalformedPuzzleIsRejected ==
    (call.op = "constructor" /\ ~WellFormed(puzzle))
        => thrown = "InvalidPuzzleError" /\ validator = NoValidator

\* C5: on every puzzle, validateProof of the empty learner order returns
\* score 0, isCorrect = false and the fixed "please arrange" text, throws
\* nothing and runs none of the analysis methods.
C5_EmptyOrderGetsPrompt ==
    (Validated /\ call.userOrder = <<>>)
        => /\ result.score = 0
           /\ result.isCorrect = FALSE
           /\ result.feedback = ArrangeText
           /\ thrown = NoError
           /\ trace = <<>>

C5_Witness ==
    /\ Validated
    /\ puzzle = FourBlockPuzzle
    /\ call.userOrder = <<>>
    /\ result.feedback = ArrangeText
    /\ result.details.missingBlocks = 4

\* The block a hint refers to.
HintBlockId(h) == IF h.type = "position" THEN h.expectedBlockId ELSE h.blockId

\* C6: on a well-formed puzzle, the hint list of every validateProof result
\* that has one holds at most 3 hints, and no two of them refer to the same
\* block id (a position hint refers to its expected block).
C6_AtMostThreeDistinctHints ==
    (Validated /\ WellFormed(puzzle) /\ "hints" \in DOMAIN result)
        => /\ Len(result.hints) <= 3
           /\ \A i, j \in 1..Len(result.hints) :
                  HintBlockId(result.hints[i]) = HintBlockId(result.hints[j]) => i = j

C6_Witness ==
    /\ Validated
    /\ puzzle = LongPuzzle
    /\ call.userOrder = <<"a">>
    /\ Len(result.hints) = 3
    /\ Cardinality(SetOf(Canonical) \ SetOf(call.userOrder)) = 4

\* C7: on a well-formed puzzle, the score of every validateProof result is
\* an integer from 0 to 100, also for learner orders longer than the
\* canonical order and learner orders with duplicate ids.
C7_ScoreInRange ==
    (Validated /\ WellFormed(puzzle)) => result.score \in 0..100

C7_Witness ==
    /\ Validated
    /\ puzzle = FourBlockPuzzle
    /\ call.userOrder = <<"b", "b", "a", "d", "d">>
    /\ result.score \in 1..99

\* The counts of C8, from the learner order and the canonical order alone.
PositionsRight(order) ==
    Cardinality({i \in 1..MathMin(Len(order), Len(Canonical)) : order[i] = Canonical[i]})
CanonicalPresent(order) == Cardinality(SetOf(Canonical) \cap SetOf(order))
ForeignIds(order) == Cardinality(SetOf(order) \ BlockIdsOf(puzzle))

\* k is x rounded to the nearest integer, a half rounding up, for x = num/den.
IsRounded(k, num, den) == 2 * k * den <= 2 * num + den /\ 2 * num + den < 2 * (k + 1) * den

\* C8: on a well-formed puzzle, for a non-empty learner order of valid ids
\* that is not an exact match, the score is
\* round(max(0, (P/N)*60 + (C/N)*40 - min(5*E, 20))); canonical [a,b,c,d]
\* scores 70 for [a,c,b,d] and 50 for [a,b].
C8_ScoreFormula ==
    (/\ Validated
     /\ WellFormed(puzzle)
     /\ call.userOrder # <<>>
     /\ OnlyPuzzleIds(call.userOrder)
     /\ call.userOrder # Canonical)
        => LET N == Len(Canonical)
               P == PositionsRight(call.userOrder)
               C == CanonicalPresent(call.userOrder)
               E == ForeignIds(call.userOrder)
               num == MathMax(0, P * 60 + C * 40 - MathMin(5 * E, 20) * N)
           IN  /\ IsRounded(result.score, num, N)
               /\ (puzzle = FourBlockPuzzle /\ call.userOrder = <<"a", "c", "b", "d">>)
                      => result.score = 70
               /\ (puzzle = FourBlockPuzzle /\ call.userOrder = <<"a", "b">>)
                      => result.score = 50

C8_Witness ==
    /\ Validated
    /\ Len(Canonical) = 3
    /\ WellFormed(puzzle)
    /\ call.userOrder = <<"a", "b">>
    /\ result.score = 67

\* The order s with the entries at i and i+1 (1-based) exchanged.
SwapAdjacent(s, i) ==
    [k \in 1..Len(s) |-> IF k = i THEN s[i + 1] ELSE IF k = i + 1 THEN s[i] ELSE s[k]]

\* C9: on a well-formed puzzle of at least two blocks, the canonical order
\* with two adjacent entries exchanged gets isCorrect = false and a score
\* below 100.
C9_AdjacentSwapIsIncorrect ==
    (/\ Validated
     /\ WellFormed(puzzle)
     /\ \E i \in 1..(Len(Canonical) - 1) : call.userOrder = SwapAdjacent(Canonical, i))
        => result.isCorrect = FALSE /\ result.score < 100

C9_Witness ==
    /\ Validated
    /\ puzzle = FourBlockPuzzle
    /\ call.userOrder = SwapAdjacent(BlockIds, 3)
    /\ result.isCorrect = FALSE
    /\ result.score = 70

----------------------------------------------------------------------------
(* Several callers on one validator.  JavaScript runs every call to        *)
(* completion, so the calls of several callers interleave call by call:    *)
(* between two calls of the caller above, a second caller makes calls on   *)
(* the same instance with learner orders of its own.                       *)

MaxSharedLen == 2

SharedOrders(p) == SeqsUpTo(Alphabet(p), MaxSharedLen) \cup {p.solutionOrder}

SharedInit ==
    /\ puzzle \in Puzzles
    /\ userOrder \in SharedOrders(puzzle)
    /\ validator = NoValidator
    /\ call = Idle
    /\ result = NULL
    /\ thrown = NoError
    /\ console = <<>>
    /\ trace = <<>>
    /\ earlier = NoValidation
    /\ NotMounted

\* One call of the second caller on the shared instance.
OtherCall ==
    /\ call = Idle
    /\ validator # NoValidator
    /\ \E order \in SharedOrders(puzzle) :
          \/ LET r == validateProof(validator, order)
             IN  /\ result' = r.ret
                 /\ console' = r.console
                 /\ trace' = r.trace
                 /\ call' = [op |-> "validateProof", userOrder |-> order,
                             caller |-> "other"]
          \/ /\ result' = validatePartial(validator, order)
             /\ console' = <<>>
             /\ trace' = IF Len(order) = 0 THEN <<>> ELSE <<"_isCorrectSequence">>
             /\ call' = [op |-> "validatePartial", userOrder |-> order,
                         caller |-> "other"]
          \/ \E blockId \in Alphabet(puzzle) :
                /\ result' = canPlaceBlock(validator, blockId, Len(order), order)
                /\ console' = <<>>
                /\ trace' = <<>>
                /\ call' = [op |-> "canPlaceBlock", blockId |-> blockId,
                            position |-> Len(order), currentOrder |-> order,
                            caller |-> "other"]
          \/ /\ result' = getNextExpectedBlock(validator, order)
             /\ console' = <<>>
             /\ trace' = IF Len(order) >= Len(validator.solutionOrder)
                         THEN <<>> ELSE <<"_isCorrectSequence">>
             /\ call' = [op |-> "getNextExpectedBlock", currentOrder |-> order,
                         caller |-> "other"]
          \/ /\ result' = validateBlockIds(validator, order)
             /\ console' = <<>>
             /\ trace' = <<>>
             /\ call' = [op |-> "validateBlockIds", userOrder |-> order,
                         caller |-> "other"]
    /\ thrown' = NoError
    /\ UNCHANGED <<puzzle, userOrder, validator, earlier, displayVars>>

SharedNext ==
    \/ Construct
    \/ ValidateProof
    \/ ValidatePartial
    \/ CanPlaceBlock
    \/ GetNextExpectedBlock
    \/ ValidateBlockIds
    \/ OtherCall
    \/ Return

SharedSpec == SharedInit /\ [][SharedNext]_vars

\* What the call c returns when it is the only call ever made on a validator
\* freshly constructed on the puzzle.
RunAlone(c) ==
    LET fresh == NewProofValidator(puzzle)
    IN  CASE c.op = "validateProof" -> validateProof(fresh, c.userOrder).ret
          [] c.op = "validatePartial" -> validatePartial(fresh, c.userOrder)
          [] c.op = "validateBlockIds" -> validateBlockIds(fresh, c.userOrder)
          [] c.op = "canPlaceBlock" ->
                 canPlaceBlock(fresh, c.blockId, c.position, c.currentOrder)
          [] c.op = "getNextExpectedBlock" ->
                 getNextExpectedBlock(fresh, c.currentOrder)

QueryOps ==
    {"validateProof", "validatePartial", "validateBlockIds", "canPlaceBlock",
     "getNextExpectedBlock"}

C12_LogOnlyOnForeignId ==
    Validated =>
        IF call.userOrder # <<>> /\ HasForeignId(call.userOrder)
        THEN /\ Len(console) = 1
             /\ console[1].message = "ProofValidator: Block ID mismatch detected"
             /\ console[1].puzzleId = puzzle.id
             /\ console[1].invalidBlocks =
                    SelectSeq(call.userOrder, LAMBDA id : id \notin BlockIdsOf(puzzle))
             /\ console[1].userOrder = call.userOrder
        ELSE console = <<>>

C12_Witness ==
    /\ Validated
    /\ puzzle = FourBlockPuzzle
    /\ call.userOrder = <<"x", "a", "x">>
    /\ Len(console) = 1
    /\ console[1].invalidBlocks = <<"x", "x">>

\* The entries of s at the positions in I, in the order of s.
EntriesAt(s, I) ==
    [k \in 1..Cardinality(I) |->
        s[CHOOSE i \in I : Cardinality({j \in I : j < i}) = k - 1]]

\* C13: validateBlockIds splits the learner order by membership in the
\* puzzle's block ids: invalidBlocks holds the entries outside the block ids,
\* validBlocks those among them, each in the order of the learner order with
\* repetitions kept; the two lengths add up to the length of the learner
\* order, and isValid is true exactly when invalidBlocks is empty.
C13_BlockIdsArePartitioned ==
    call.op = "validateBlockIds" =>
        LET order == call.userOrder
            outside == {i \in DOMAIN order : order[i] \notin BlockIdsOf(puzzle)}
            inside == {i \in DOMAIN order : order[i] \in BlockIdsOf(puzzle)}
        IN  /\ result.invalidBlocks = EntriesAt(order, outside)
            /\ result.validBlocks = EntriesAt(order, inside)
            /\ Len(result.invalidBlocks) + Len(result.validBlocks) = Len(order)
            /\ result.isValid <=> result.invalidBlocks = <<>>

C13_Witness ==
    /\ call.op = "validateBlockIds"
    /\ puzzle = FourBlockPuzzle
    /\ call.userOrder = <<"x", "b", "b", "x", "a">>
    /\ result.invalidBlocks = <<"x", "x">>
    /\ result.validBlocks = <<"b", "b", "a">>
    /\ result.isValid = FALSE

----------------------------------------------------------------------------
(* canPlaceBlock on any position: the caller asks about every block id and *)
(* every position from one below the first to one past the end of the      *)
(* canonical order, whatever the length of its current arrangement.        *)

Positions(p) == (0 - 1)..(Len(p.solutionOrder) + 1)

\* validator.canPlaceBlock(blockId, position, userOrder)
CanPlaceBlockAt ==
    /\ call = Idle
    /\ validator # NoValidator
    /\ \E blockId \in Alphabet(puzzle), position \in Positions(puzzle) :
          /\ result' = canPlaceBlock(validator, blockId, position, userOrder)
          /\ call' = [op |-> "canPlaceBlock", blockId |-> blockId,
                      position |-> position, currentOrder |-> userOrder]
    /\ thrown' = NoError
    /\ console' = <<>>
    /\ trace' = <<>>
    /\ UNCHANGED <<puzzle, userOrder, validator, earlier, displayVars>>

PlaceNext ==
    \/ Construct
    \/ CanPlaceBlockAt
    \/ Return

PlaceSpec == Init /\ [][PlaceNext]_vars

\* C14: canPlaceBlock(blockId, position, currentOrder) returns true exactly
\* when 0 <= position < canonical length, the canonical id at position is
\* blockId, and every index below position has an entry in currentOrder
\* that equals the canonical id of that index; so it returns false when
\* currentOrder is shorter than position.
C14_CanPlaceIffPrefixSolved ==
    call.op = "canPlaceBlock" =>
        LET position == call.position
            currentOrder == call.currentOrder
        IN  /\ result = TRUE <=>
                   /\ 0 <= position
                   /\ position < Len(Canonical)
                   /\ At(Canonical, position) = call.blockId
                   /\ \A i \in 0..(position - 1) :
                          /\ i < Len(currentOrder)
                          /\ At(currentOrder, i) = At(Canonical, i)
            /\ Len(currentOrder) < position => result = FALSE

\* The right block for position 2 is refused while position 1 is not filled,
\* on a puzzle where it is accepted once the two positions before it are.
C14_Witness ==
    /\ call.op = "canPlaceBlock"
    /\ puzzle = FourBlockPuzzle
    /\ call.blockId = "c"
    /\ call.position = 2
    /\ call.currentOrder = <<"a">>
    /\ result = FALSE
    /\ canPlaceBlock(validator, "c", 2, <<"a", "b">>)

----------------------------------------------------------------------------
(* Properties of the incremental methods *)

\* The indexes (0-based) at which order has an entry that is not the
\* canonical id of that index.
Divergences(order) ==
    {i \in 0..(Len(order) - 1) :
        i >= Len(Canonical) \/ At(order, i) # At(Canonical, i)}

\* C15: getNextExpectedBlock(currentOrder) returns null when currentOrder is
\* at least as long as the canonical order; otherwise the canonical id at
\* index |currentOrder| when every entry of currentOrder is the canonical id
\* of its index, and the canonical id at the lowest index where currentOrder
\* differs from the canonical order when not.
C15_NextExpectedBlock ==
    call.op = "getNextExpectedBlock" =>
        LET currentOrder == call.currentOrder
            bad == Divergences(currentOrder)
        IN  IF Len(currentOrder) >= Len(Canonical) THEN result = NULL
            ELSE IF bad = {} THEN result = At(Canonical, Len(currentOrder))
            ELSE \E i \in bad : /\ \A j \in bad : i <= j
                                /\ result = At(Canonical, i)

C15_Witness ==
    /\ call.op = "getNextExpectedBlock"
    /\ puzzle = FourBlockPuzzle
    /\ call.currentOrder = <<"a", "c", "c">>
    /\ result = "b"

\* C16: validatePartial returns isValid = correctSoFar, and both are true
\* exactly when the order is no longer than the canonical order and equals
\* the canonical prefix of its length (so the empty order is valid); on a
\* non-empty canonical order, progress is the number
\* |currentOrder| / canonical length * 100.
C16_PartialIsPrefixMatch ==
    call.op = "validatePartial" =>
        LET order == call.userOrder
        IN  /\ result.isValid = result.correctSoFar
            /\ result.isValid <=>
                   /\ Len(order) <= Len(Canonical)
                   /\ order = Prefix(Canonical, Len(order))
            /\ Len(Canonical) > 0 =>
                   /\ result.progress.den > 0
                   /\ result.progress.num * Len(Canonical)
                          = Len(order) * 100 * result.progress.den

C16_Witness ==
    /\ call.op = "validatePartial"
    /\ puzzle = FourBlockPuzzle
    /\ call.userOrder = <<"a", "b", "c">>
    /\ result.isValid
    /\ result.correctSoFar
    /\ result.progress = Quotient(300, 4)

----------------------------------------------------------------------------
(* Properties of the analysed results *)

\* The validateProof call ran the sequence analysis.
Analysed == Validated /\ Includes(trace, "_analyzeSequence")

\* C17: on a well-formed puzzle, a validateProof call runs the sequence
\* analysis only on a non-empty learner order without a foreign id, and the
\* result then has details.extraBlocks = 0; so the score of a result that is
\* not correct is the rounded (P/N)*60 + (C/N)*40, with nothing taken off
\* for extra blocks.
C17_NoExtraBlocksAfterGuard ==
    (Analysed /\ WellFormed(puzzle))
        => /\ call.userOrder # <<>>
           /\ ~HasForeignId(call.userOrder)
           /\ result.details.extraBlocks = 0
           /\ ~result.isCorrect =>
                  IsRounded(result.score,
                            PositionsRight(call.userOrder) * 60
                                + CanonicalPresent(call.userOrder) * 40,
                            Len(Canonical))

C17_Witness ==
    /\ Analysed
    /\ puzzle = FourBlockPuzzle
    /\ call.userOrder = <<"b", "b", "a">>
    /\ result.details.extraBlocks = 0
    /\ Len(result.details.duplicates) = 1
    /\ result.score = 35

\* The indexes (0-based) below both lengths where order differs from the
\* canonical order.
WrongPositions(order) ==
    {i \in 0..(MathMin(Len(order), Len(Canonical)) - 1) :
        At(order, i) # At(Canonical, i)}

\* C18: on a well-formed puzzle, when the analysed learner order differs from
\* the canonical order at some index below both lengths, the first hint is a
\* position hint for the lowest such index: it carries that index, shows it
\* 1-based in its message and carries the id and the latex of the canonical
\* block of that index.  Canonical [a,b,c,d] with learner [a,c,b,d] gives a
\* first hint for position 2 expecting b.
C18_FirstHintIsFirstWrongPosition ==
    (Analysed /\ WellFormed(puzzle) /\ WrongPositions(call.userOrder) # {})
        => LET wrong == WrongPositions(call.userOrder)
               first == CHOOSE i \in wrong : \A j \in wrong : i <= j
               hint == result.hints[1]
           IN  /\ ~result.isCorrect
               /\ Len(result.hints) >= 1
               /\ hint.type = "position"
               /\ hint.position = first
               /\ hint.message =
                      "The block at position " \o ToString(first + 1) \o " should be:"
               /\ hint.expectedBlockId = At(Canonical, first)
               /\ \E k \in DOMAIN puzzle.blocks :
                      /\ puzzle.blocks[k].id = At(Canonical, first)
                      /\ hint.latex = puzzle.blocks[k].latex
               /\ (puzzle = FourBlockPuzzle /\ call.userOrder = <<"a", "c", "b", "d">>)
                      => /\ hint.message = "The block at position 2 should be:"
                         /\ hint.expectedBlockId = "b"

C18_Witness ==
    /\ Analysed
    /\ puzzle = FourBlockPuzzle
    /\ call.userOrder = <<"a", "c", "b", "d">>
    /\ result.isCorrect = FALSE
    /\ result.hints[1].type = "position"
    /\ result.hints[1].position = 1
    /\ result.hints[1].expectedBlockId = "b"

\* The hints of the missing-block pass in a hint list (the later pass that
\* fills the list up uses another message).
MissingPassHints(hints) ==
    {k \in DOMAIN hints : /\ hints[k].type = "missing"
                          /\ hints[k].message = "You're missing this important step:"}

\* The block id the position hint is about, if the order calls for one.
PositionSubject(order) ==
    LET wrong == WrongPositions(order)
    IN  IF wrong = {} THEN {}
        ELSE {At(Canonical, CHOOSE i \in wrong : \A j \in wrong : i <= j)}

\* C19: on a well-formed puzzle, when the analysed learner order lacks a
\* canonical id, the missing-block pass gives at most one hint; it gives one
\* exactly when some canonical id is absent from the learner order and is
\* not the subject of the position hint, and the hint is then about the
\* earliest such id of the canonical order, with the latex of its block.
\* Canonical [a,b,c,d] with learner [a,b] gives a missing hint for c.
C19_OneMissingHintForEarliestAbsent ==
    (/\ Analysed
     /\ WellFormed(puzzle)
     /\ SetOf(Canonical) \ SetOf(call.userOrder) # {})
        => LET order == call.userOrder
               absent == {i \in 0..(Len(Canonical) - 1) :
                             /\ At(Canonical, i) \notin SetOf(order)
                             /\ At(Canonical, i) \notin PositionSubject(order)}
               given == MissingPassHints(result.hints)
           IN  /\ Cardinality(given) <= 1
               /\ given = {} <=> absent = {}
               /\ \A k \in given :
                      LET first == CHOOSE i \in absent : \A j \in absent : i <= j
                      IN  /\ result.hints[k].blockId = At(Canonical, first)
                          /\ result.hints[k].latex = Block(At(Canonical, first)).latex
                          /\ k = Cardinality(PositionSubject(order)) + 1
               /\ (puzzle = FourBlockPuzzle /\ order = <<"a", "b">>)
                      => /\ result.hints[1].type = "missing"
                         /\ result.hints[1].blockId = "c"

\* The earliest absent id, b, is the subject of the position hint, so the
\* missing hint is about d.
C19_Witness ==
    /\ Analysed
    /\ puzzle = FourBlockPuzzle
    /\ call.userOrder = <<"a", "c">>
    /\ result.hints[1].type = "position"
    /\ result.hints[1].expectedBlockId = "b"
    /\ result.hints[2].type = "missing"
    /\ result.hints[2].blockId = "d"
    /\ Len(result.hints) = 2

\* The next expected id of an order, from the order and the canonical order
\* alone.
ExpectedNext(order) ==
    LET bad == Divergences(order)
    IN  IF Len(order) >= Len(Canonical) THEN NULL
        ELSE IF bad = {} THEN At(Canonical, Len(order))
        ELSE At(Canonical, CHOOSE i \in bad : \A j \in bad : i <= j)

NextHints(hints) == {k \in DOMAIN hints : hints[k].type = "next"}

\* C20: a validateProof result holds a hint of type next only when the
\* learner order is shorter than the canonical order; there is at most one,
\* it is about the id getNextExpectedBlock gives for the learner order, and
\* no other hint of the result is about that id; there is none when that id
\* is the subject of the position hint or of the hint of the missing-block
\* pass.  Canonical [a,b,c,d] with learner [a,b]: the next expected id c is
\* the subject of the missing hint, no next hint is given and the list goes
\* on with d.
C20_NextHintOnlyIfNotYetSuggested ==
    Analysed =>
        LET order == call.userOrder
            hints == result.hints
            nexts == NextHints(hints)
            suggested ==
                {hints[j].expectedBlockId :
                    j \in {i \in DOMAIN hints : hints[i].type = "position"}}
                \cup {hints[j].blockId : j \in MissingPassHints(hints)}
        IN  /\ Cardinality(nexts) <= 1
            /\ nexts # {} => Len(order) < Len(Canonical)
            /\ \A k \in nexts :
                   /\ hints[k].blockId = ExpectedNext(order)
                   /\ \A j \in DOMAIN hints :
                          j # k => HintBlockId(hints[j]) # hints[k].blockId
            /\ ExpectedNext(order) \in suggested => nexts = {}
            /\ (puzzle = FourBlockPuzzle /\ order = <<"a", "b">>)
                   => /\ ExpectedNext(order) = "c"
                      /\ nexts = {}
                      /\ [k \in DOMAIN hints |-> hints[k].blockId] = <<"c", "d">>

C20_Witness ==
    /\ Analysed
    /\ puzzle = FourBlockPuzzle
    /\ call.userOrder = <<"a", "b">>
    /\ getNextExpectedBlock(validator, call.userOrder) = "c"
    /\ result.hints[1].type = "missing"
    /\ result.hints[1].blockId = "c"
    /\ NextHints(result.hints) = {}

\* A next hint is given on a canonical order that repeats an id, where the
\* next expected id is neither absent nor out of place.
NextHintGiven ==
    /\ Analysed
    /\ NextHints(result.hints) # {}

\* On a well-formed puzzle the next expected id is always the subject of the
\* position hint or of the missing hint, so no next hint is given.
NoNextHintOnWellFormed ==
    (Analysed /\ WellFormed(puzzle)) => NextHints(result.hints) = {}

----------------------------------------------------------------------------
(* Properties of the hints, the feedback text and the details *)

\* A hint of the pass that fills the list up.
IsFillHint(h) == h.type = "missing" /\ h.message = "Consider this step:"

\* C21: on a well-formed puzzle, the hints of the position, missing and next
\* passes come first; when they are fewer than 3, they are followed by
\* missing hints for the canonical ids that are absent from the learner
\* order and not the subject of one of them, in canonical order, until the
\* list holds 3 hints or these ids run out.  Canonical [a,b,c,d] with
\* learner [a,b] gives exactly missing c then missing d.
C21_FillUpToThreeHints ==
    (Analysed /\ WellFormed(puzzle))
        => LET order == call.userOrder
               hints == result.hints
               nb == Cardinality({k \in DOMAIN hints : ~IsFillHint(hints[k])})
               used == {HintBlockId(hints[k]) : k \in 1..nb}
               remaining == SelectSeq(Canonical,
                                LAMBDA id : id \notin SetOf(order) /\ id \notin used)
               room == MathMin(MathMax(3 - nb, 0), Len(remaining))
           IN  /\ \A k \in 1..nb : ~IsFillHint(hints[k])
               /\ Len(hints) = nb + room
               /\ \A k \in 1..room :
                      /\ hints[nb + k].blockId = remaining[k]
                      /\ hints[nb + k].latex = Block(remaining[k]).latex
               /\ (puzzle = FourBlockPuzzle /\ order = <<"a", "b">>)
                      => /\ Len(hints) = 2
                         /\ hints[1].type = "missing" /\ hints[1].blockId = "c"
                         /\ hints[2].type = "missing" /\ hints[2].blockId = "d"

C21_Witness ==
    /\ Analysed
    /\ puzzle = FourBlockPuzzle
    /\ call.userOrder = <<"a", "b">>
    /\ Len(result.hints) = 2
    /\ ~IsFillHint(result.hints[1])
    /\ IsFillHint(result.hints[2])
    /\ result.hints[2].blockId = "d"

\* The indexes (0-based) of order whose id occurs at a lower index too.
RepeatedPositions(order) ==
    {i \in 0..(Len(order) - 1) : \E j \in 0..(i - 1) : At(order, j) = At(order, i)}

\* The clause for a count, nothing for a count of zero.
ClauseIf(n, clause) == IF n > 0 THEN <<clause>> ELSE <<>>

\* The clauses with one space between neighbours.
RECURSIVE Spaced(_)
Spaced(clauses) ==
    IF Len(clauses) = 1 THEN clauses[1]
    ELSE Spaced(SubSeq(clauses, 1, Len(clauses) - 1)) \o " " \o clauses[Len(clauses)]

\* C22: the feedback of an analysed learner order is the congratulation
\* exactly when the order is the canonical order; otherwise it is the
\* clauses of the non-zero counts, in the order missing, extra, duplicate,
\* wrong position, right position, with single spaces between them, and the
\* keep-working text only when all five counts are zero.
C22_FeedbackClausesInOrder ==
    Analysed =>
        LET order == call.userOrder
            missing == Cardinality(SetOf(Canonical) \ SetOf(order))
            extra == Cardinality(SetOf(order) \ SetOf(Canonical))
            duplicate == Cardinality(RepeatedPositions(order))
            wrong == Cardinality(WrongPositions(order))
            right == PositionsRight(order)
            clauses == ClauseIf(missing, MissingClause(missing))
                         \o ClauseIf(extra, ExtraClause(extra))
                         \o ClauseIf(duplicate, DuplicateClause(duplicate))
                         \o ClauseIf(wrong, WrongClause(wrong))
                         \o ClauseIf(right, RightClause(right))
        IN  /\ result.feedback = ExcellentText <=> order = Canonical
            /\ order # Canonical =>
                   result.feedback = IF clauses = <<>> THEN KeepWorkingText
                                     ELSE Spaced(clauses)
            /\ result.feedback = KeepWorkingText =>
                   missing + extra + duplicate + wrong + right = 0

C22_Witness ==
    /\ Analysed
    /\ puzzle = FourBlockPuzzle
    /\ call.userOrder = <<"a", "c", "a">>
    /\ result.feedback =
           "(x) Missing 2 block(s) from your proof. "
               \o "(repeat) You have 1 duplicate block(s). "
               \o "(pin) 2 block(s) are in the wrong position. "
               \o "(check) 1 block(s) are correctly positioned."

\* C23: details.duplicates of an analysed result lists, by increasing
\* position, exactly the indexes of the learner order whose id occurs at a
\* lower index too, each with its id (a first occurrence is never listed).
\* The duplicates put their clause into the feedback of an order that is not
\* correct, and the score is computed from the positions, the ids present
\* and the extra ids alone.  Learner [a,b,c,d,a] on canonical [a,b,c,d] has
\* the one duplicate a at position 4 and the duplicate clause.
C23_DuplicatesAreLaterOccurrences ==
    Analysed =>
        LET order == call.userOrder
            duplicates == result.details.duplicates
            repeated == RepeatedPositions(order)
        IN  /\ Len(duplicates) = Cardinality(repeated)
            /\ {duplicates[k].position : k \in DOMAIN duplicates} = repeated
            /\ \A k \in DOMAIN duplicates :
                   /\ duplicates[k].blockId = At(order, duplicates[k].position)
                   /\ \A l \in DOMAIN duplicates :
                          k < l => duplicates[k].position < duplicates[l].position
            /\ (repeated # {} /\ ~result.details.correctSequence) =>
                   result.feedback #
                       _generateFeedback([result.details EXCEPT !.duplicates = <<>>])
            /\ (Len(Canonical) > 0 /\ ~result.details.correctSequence) =>
                   IsRounded(result.score,
                             MathMax(0, PositionsRight(order) * 60
                                          + CanonicalPresent(order) * 40
                                          - MathMin(5 * Cardinality(SetOf(order)
                                                        \ SetOf(Canonical)), 20)
                                              * Len(Canonical)),
                             Len(Canonical))
            /\ (puzzle = FourBlockPuzzle /\ order = <<"a", "b", "c", "d", "a">>)
                   => /\ duplicates = <<[blockId |-> "a", position |-> 4]>>
                      /\ result.feedback =
                             DuplicateClause(1) \o " " \o RightClause(4)

C23_Witness ==
    /\ Analysed
    /\ puzzle = FourBlockPuzzle
    /\ call.userOrder = <<"a", "b", "c", "d", "a">>
    /\ result.details.duplicates = <<[blockId |-> "a", position |-> 4]>>

\* C24: in an analysed result, correctlyPositioned and incorrectlyPositioned
\* together list every index below min(|learner|, canonical length) exactly
\* once and no other index; an index is in correctlyPositioned exactly when
\* the learner id there is the canonical id; every entry records the learner
\* id of its index, and an incorrectlyPositioned entry the canonical id
\* expected there as well.  Canonical [a,b,c,d] with learner [a,c,b,d]:
\* a@0 and d@3 are right, c@1 (expected b) and b@2 (expected c) are wrong.
C24_PositionsAreClassifiedOnce ==
    Analysed =>
        LET order == call.userOrder
            right == result.details.correctlyPositioned
            wrong == result.details.incorrectlyPositioned
            n == MathMin(Len(order), Len(Canonical))
        IN  /\ Len(right) + Len(wrong) = n
            /\ {right[k].position : k \in DOMAIN right}
                   = {i \in 0..(n - 1) : At(order, i) = At(Canonical, i)}
            /\ {wrong[k].position : k \in DOMAIN wrong}
                   = {i \in 0..(n - 1) : At(order, i) # At(Canonical, i)}
            /\ \A k \in DOMAIN right :
                   right[k].blockId = At(order, right[k].position)
            /\ \A k \in DOMAIN wrong :
                   /\ wrong[k].blockId = At(order, wrong[k].position)
                   /\ wrong[k].expectedBlockId = At(Canonical, wrong[k].position)
            /\ (puzzle = FourBlockPuzzle /\ order = <<"a", "c", "b", "d">>)
                   => /\ right = <<[blockId |-> "a", position |-> 0],
                                   [blockId |-> "d", position |-> 3]>>
                      /\ wrong = <<[blockId |-> "c", position |-> 1,
                                    expectedBlockId |-> "b"],
                                   [blockId |-> "b", position |-> 2,
                                    expectedBlockId |-> "c"]>>

\* A learner order longer than the canonical order: its fifth entry is in
\* neither list.
C24_Witness ==
    /\ Analysed
    /\ puzzle = FourBlockPuzzle
    /\ call.userOrder = <<"a", "c", "b", "d", "b">>
    /\ Len(result.details.correctlyPositioned) = 2
    /\ Len(result.details.incorrectlyPositioned) = 2

\* C25 as the claim states it: on a well-formed puzzle, a validateProof
\* result has score 100 only when it has isCorrect = true; so the canonical
\* order followed by a repeated valid id does not score 100.
C25_FullScoreOnlyIfCorrect ==
    (Validated /\ WellFormed(puzzle))
        => (result.score = 100 => result.isCorrect)

\* The canonical order followed by its first id again: every canonical
\* position is right and every canonical id is present, so the score is
\* 60 + 40 while isCorrect is false.
FullScoreNotCorrect ==
    /\ Validated
    /\ puzzle = FourBlockPuzzle
    /\ call.userOrder = <<"a", "b", "c", "d", "a">>
    /\ result.score = 100
    /\ result.isCorrect = FALSE

NoRepeatedId(order) == \A i, j \in DOMAIN order : order[i] = order[j] => i = j

\* C26: on a well-formed puzzle, a non-empty learner order of ids of the
\* puzzle, none of them twice, that is not the canonical order gets at least
\* one hint.
C26_IncorrectOrderGetsAHint ==
    (/\ Validated
     /\ WellFormed(puzzle)
     /\ call.userOrder # <<>>
     /\ OnlyPuzzleIds(call.userOrder)
     /\ NoRepeatedId(call.userOrder)
     /\ call.userOrder # Canonical)
        => Len(result.hints) >= 1

\* A permutation of the whole canonical order: nothing is missing and
\* nothing is next, the position hint is the only hint.
C26_Witness ==
    /\ Validated
    /\ puzzle = FourBlockPuzzle
    /\ call.userOrder = <<"b", "a", "d", "c">>
    /\ Len(result.hints) = 1
    /\ result.hints[1].type = "position"

\* C27 as the claim states it: on a well-formed puzzle, the nextExpected
\* field of validatePartial is what getNextExpectedBlock returns for the
\* same order, also for an order that differs from the canonical order.
C27_PartialNextIsNextExpectedBlock ==
    (call.op = "validatePartial" /\ WellFormed(puzzle))
        => result.nextExpected = getNextExpectedBlock(validator, call.userOrder)

\* validatePartial names the canonical id at index |order|, here c, which the
\* learner has placed already; getNextExpectedBlock names b, the id of the
\* first index that is wrong.
PartialNextAlreadyPlaced ==
    /\ call.op = "validatePartial"
    /\ puzzle = FourBlockPuzzle
    /\ call.userOrder = <<"a", "c">>
    /\ result.nextExpected = "c"
    /\ getNextExpectedBlock(validator, call.userOrder) = "b"

\* The two agree on every order that is a prefix of the canonical order.
PartialNextAgreesOnPrefixes ==
    (/\ call.op = "validatePartial"
     /\ WellFormed(puzzle)
     /\ Divergences(call.userOrder) = {})
        => result.nextExpected = getNextExpectedBlock(validator, call.userOrder)

----------------------------------------------------------------------------
(* ValidationUtils: the stand-alone helper next to the class, called on    *)
(* the learner order and the solution order of the puzzle.                 *)

\* isCorrectOrder without the comparison of the lengths.
isCorrectOrder_noLength(order, correctOrder) ==
    \A index \in 0..(Len(order) - 1) :
        /\ index < Len(correctOrder)
        /\ At(order, index) = At(correctOrder, index)

\* ValidationUtils.isCorrectOrder(userOrder, correctOrder); correctOrder[index]
\* past the end is undefined, which no block id equals.
isCorrectOrder(order, correctOrder) ==
    IF Len(order) # Len(correctOrder) THEN FALSE
    ELSE \A index \in 0..(Len(order) - 1) :
             /\ index < Len(correctOrder)
             /\ At(order, index) = At(correctOrder, index)

\* ValidationUtils.isCorrectOrder(userOrder, puzzle.solutionOrder)
IsCorrectOrder ==
    /\ call = Idle
    /\ result' = isCorrectOrder(userOrder, puzzle.solutionOrder)
    /\ call' = [op |-> "isCorrectOrder", userOrder |-> userOrder,
                correctOrder |-> puzzle.solutionOrder]
    /\ thrown' = NoError
    /\ console' = <<>>
    /\ trace' = <<>>
    /\ UNCHANGED <<puzzle, userOrder, validator, earlier, displayVars>>

UtilsNext ==
    \/ Construct
    \/ ValidateProof
    \/ IsCorrectOrder
    \/ Return

UtilsSpec == Init /\ [][UtilsNext]_vars

\* C30: on a well-formed puzzle, for every learner order (empty, partial,
\* longer than the canonical order, with repeated or foreign ids),
\* isCorrectOrder(learner order, canonical order) is the isCorrect that
\* validateProof returned for that learner order.
C30_IsCorrectOrderAgreesWithValidate ==
    (/\ call.op = "isCorrectOrder"
     /\ WellFormed(puzzle)
     /\ earlier.returned)
        => result = earlier.value.isCorrect

C30_Witness ==
    /\ call.op = "isCorrectOrder"
    /\ earlier.returned
    /\ puzzle = FourBlockPuzzle
    /\ call.userOrder = <<"a", "b", "c", "d", "a">>
    /\ call.correctOrder = <<"a", "b", "c", "d">>
    /\ result = FALSE
    /\ earlier.value.isCorrect = FALSE

----------------------------------------------------------------------------
(* PuzzleDisplay (src/unnamed/part_001) with ProofValidationDisplay below  *)
(* it.  availableBlocks and proofBlocks are React state: a handler reads   *)
(* the values of the last render and queues its updates, and the next      *)
(* render applies the queued updates in order, an updater function to the  *)
(* value the updates before it have produced.  pending holds, for each of  *)
(* the two lists, the value the queue gives so far: an updater is pure and *)
(* closes over values fixed when its handler ran, so applying it when it   *)
(* is queued gives what React computes at the render.  Nothing in the      *)
(* component makes a render come between two handlers, so up to MaxBatch   *)
(* handlers run on the values of one render.  The drag overlay (activeId)  *)
(* is left out: no other state depends on it.                              *)

MaxDisplayBlocks == 2
MaxBatch == 2

\* The puzzles on display: the blocks of a catalog in their order or in the
\* opposite order.
Reversed(s) == [i \in 1..Len(s) |-> s[Len(s) + 1 - i]]
DisplayPuzzles ==
    {MakePuzzle(Prefix(BlockIds, n), Prefix(BlockIds, n)) : n \in 1..MaxDisplayBlocks}
        \cup {MakePuzzle(Reversed(Prefix(BlockIds, n)), Prefix(BlockIds, n)) :
                  n \in 1..MaxDisplayBlocks}

engineVars == <<userOrder, call, result, thrown, console, trace, earlier>>

\* The arrangements [...puzzle.blocks].sort(() => Math.random() - 0.5) can
\* return: any order of the blocks.
Shuffles(blocks) ==
    {s \in [1..Len(blocks) -> SetOf(blocks)] :
        \A i, j \in 1..Len(blocks) : s[i] = s[j] => i = j}

\* items.findIndex(item => item.id === id): 0-based, -1 when there is none.
FindIndex(items, id) ==
    IF \E k \in DOMAIN items : items[k].id = id
    THEN (CHOOSE k \in DOMAIN items :
             /\ items[k].id = id
             /\ \A l \in DOMAIN items : items[l].id = id => k <= l) - 1
    ELSE 0 - 1

\* What array[i] gives where the array has no element.
UndefinedBlock == [id |-> Undefined, latex |-> Undefined]

\* array.slice(from, to), 0-based, to exclusive.
Slice(array, from, to) == SubSeq(array, from + 1, to)

\* arrayMove(array, from, to) of @dnd-kit/sortable:
\*   newArray.splice(to < 0 ? newArray.length + to : to, 0,
\*                   newArray.splice(from, 1)[0])
\* The target index is computed before the element is taken out; a negative
\* from counts from the end; splice clamps an index past the end.
arrayMove(array, from, to) ==
    LET len == Len(array)
        target == IF to < 0 THEN len + to ELSE to
        start == IF from < 0 THEN MathMax(len + from, 0) ELSE MathMin(from, len)
        removed == IF start < len THEN At(array, start) ELSE UndefinedBlock
        rest == IF start < len
                THEN Slice(array, 0, start) \o Slice(array, start + 1, len)
                ELSE array
        at == IF target < 0 THEN MathMax(Len(rest) + target, 0)
              ELSE MathMin(target, Len(rest))
    IN  Slice(rest, 0, at) \o <<removed>> \o Slice(rest, at, Len(rest))

\* The updates a handler queues: a value (setX(value)) or an updater
\* function (setX(prev => ...)), as data.
SetTo(state, value) == [state |-> state, op |-> "set", value |-> value]
MoveWithin(state, activeId, overId) ==
    [state |-> state, op |-> "arrayMove", activeId |-> activeId, overId |-> overId]
TakeOut(state, activeId) == [state |-> state, op |-> "filter", activeId |-> activeId]
PutIn(state, itemToMove, overId) ==
    [state |-> state, op |-> "insert", itemToMove |-> itemToMove, overId |-> overId]

\* The value an update gives from the previous value.
ApplyUpdate(u, prev) ==
    CASE u.op = "set" -> u.value
      [] u.op = "arrayMove" ->
             arrayMove(prev, FindIndex(prev, u.activeId), FindIndex(prev, u.overId))
      [] u.op = "filter" -> SelectSeq(prev, LAMBDA item : item.id # u.activeId)
      [] u.op = "insert" ->
             LET overIndex == FindIndex(prev, u.overId)
             IN  IF overIndex # 0 - 1
                 THEN Slice(prev, 0, overIndex) \o <<u.itemToMove>>
                          \o Slice(prev, overIndex, Len(prev))
                 ELSE Append(prev, u.itemToMove)

\* The queue after the updates of one handler, each applied to the value the
\* queue gave for its list before it.
RECURSIVE Enqueue(_, _)
Enqueue(updates, queued) ==
    IF updates = <<>> THEN queued
    ELSE LET u == Head(updates)
         IN  Enqueue(Tail(updates),
                     [queued EXCEPT ![u.state] = ApplyUpdate(u, queued[u.state])])

\* findContainer(id) on the values of the last render.
findContainer(id) ==
    IF FindIndex(availableBlocks, id) # 0 - 1 THEN "palette"
    ELSE IF FindIndex(proofBlocks, id) # 0 - 1 THEN "workspace"
    ELSE NULL

\* The ids a drag-end event carries: active is a block, over is a block, one
\* of the two droppable areas, or nothing.
ActiveIds == BlockIdsOf(puzzle)
OverIds == BlockIdsOf(puzzle) \cup {"palette", "workspace", NULL}

\* The updates handleDragEnd queues for the event (active, over).
handleDragEnd(activeId, overId) ==
    LET activeContainer == findContainer(activeId)
        overContainer == IF findContainer(overId) # NULL
                         THEN findContainer(overId) ELSE overId
    IN  IF overId = NULL THEN <<>>
        ELSE IF activeContainer = NULL \/ overContainer = NULL THEN <<>>
        ELSE IF activeContainer = overContainer
        THEN IF activeId = overId THEN <<>>
             ELSE IF activeContainer = "palette"
             THEN <<MoveWithin("availableBlocks", activeId, overId)>>
             ELSE <<MoveWithin("proofBlocks", activeId, overId)>>
        ELSE IF activeContainer = "palette"
        THEN LET itemToMove == At(availableBlocks, FindIndex(availableBlocks, activeId))
             IN  <<TakeOut("availableBlocks", activeId),
                   PutIn("proofBlocks", itemToMove, overId)>>
        ELSE LET itemToMove == At(proofBlocks, FindIndex(proofBlocks, activeId))
             IN  <<TakeOut("proofBlocks", activeId),
                   PutIn("availableBlocks", itemToMove, overId)>>

\* The page is mounted: useState([]) twice, useState(() => new
\* ProofValidator(puzzle)), useState(null); the init effect has yet to run.
DisplayInit ==
    /\ puzzle \in DisplayPuzzles
    /\ userOrder = <<>>
    /\ validator = NewProofValidator(puzzle)
    /\ call = Idle
    /\ result = NULL
    /\ thrown = NoError
    /\ console = <<>>
    /\ trace = <<>>
    /\ earlier = NoValidation
    /\ NotMounted

Initialised == committed # <<>>
CanHandle == thrown = NoError /\ Len(batch) < MaxBatch /\ (batch # <<>> \/ Initialised)

\* The init effect: the palette gets the shuffled blocks, the workspace is
\* emptied.
InitEffect ==
    /\ thrown = NoError
    /\ batch = <<>>
    /\ ~Initialised
    /\ \E shuffledBlocks \in Shuffles(puzzle.blocks) :
          pending' = Enqueue(<<SetTo("availableBlocks", shuffledBlocks),
                                    SetTo("proofBlocks", <<>>)>>, pending)
    /\ batch' = Append(batch, "useEffect")
    /\ UNCHANGED <<puzzle, validator, engineVars, availableBlocks, proofBlocks,
                   committed, validationResult>>

\* onDragEnd={handleDragEnd}
DragEnd ==
    /\ CanHandle
    /\ Len(availableBlocks) + Len(proofBlocks) <= Len(puzzle.blocks)
    /\ \E activeId \in ActiveIds, overId \in OverIds :
          pending' = Enqueue(handleDragEnd(activeId, overId), pending)
    /\ batch' = Append(batch, "handleDragEnd")
    /\ UNCHANGED <<puzzle, validator, engineVars, availableBlocks, proofBlocks,
                   committed, validationResult>>

\* onClick={handleReset}
Reset ==
    /\ CanHandle
    /\ \E shuffledBlocks \in Shuffles(puzzle.blocks) :
          pending' = Enqueue(<<SetTo("availableBlocks", shuffledBlocks),
                                    SetTo("proofBlocks", <<>>)>>, pending)
    /\ batch' = Append(batch, "handleReset")
    /\ UNCHANGED <<puzzle, validator, engineVars, availableBlocks, proofBlocks,
                   committed, validationResult>>

\* handleShowSolution with setProofBlocks(puzzle.blocks): the blocks in the
\* order of the catalog.
ShowSolution_catalogOrder ==
    /\ CanHandle
    /\ pending' = Enqueue(<<SetTo("proofBlocks", puzzle.blocks),
                            SetTo("availableBlocks", <<>>)>>, pending)
    /\ batch' = Append(batch, "handleShowSolution")
    /\ UNCHANGED <<puzzle, validator, engineVars, availableBlocks, proofBlocks,
                   committed, validationResult>>

\* onClick={handleShowSolution}: .filter(Boolean) drops the ids of the
\* solution order that have no block.
ShowSolution ==
    /\ CanHandle
    /\ LET known == SelectSeq(puzzle.solutionOrder,
                        LAMBDA id : FindIndex(puzzle.blocks, id) # 0 - 1)
           solutionBlocks ==
               [k \in 1..Len(known) |->
                   At(puzzle.blocks, FindIndex(puzzle.blocks, known[k]))]
       IN  pending' = Enqueue(<<SetTo("proofBlocks", solutionBlocks),
                                     SetTo("availableBlocks", <<>>)>>, pending)
    /\ batch' = Append(batch, "handleShowSolution")
    /\ UNCHANGED <<puzzle, validator, engineVars, availableBlocks, proofBlocks,
                   committed, validationResult>>

\* The render after a batch of handlers, with the validation effect of
\* ProofValidationDisplay: the queued updates are applied, the ids of the
\* workspace are handed to validateProof, the result is put on display.  An
\* undefined entry in a list makes block.id throw while rendering.
Render ==
    /\ thrown = NoError
    /\ batch # <<>>
    /\ LET available == pending.availableBlocks
           proof == pending.proofBlocks
           order == [k \in 1..Len(proof) |-> proof[k].id]
       IN  /\ availableBlocks' = available
           /\ proofBlocks' = proof
           /\ IF Includes(available, UndefinedBlock) \/ Includes(proof, UndefinedBlock)
              THEN /\ thrown' = "TypeError"
                   /\ UNCHANGED <<userOrder, validationResult, console>>
              ELSE /\ thrown' = NoError
                   /\ IF Len(proof) > 0
                      THEN /\ userOrder' = order
                           /\ validationResult' = validateProof(validator, order).ret
                           /\ console' = validateProof(validator, order).console
                      ELSE /\ userOrder' = <<>>
                           /\ validationResult' = NullResult
                           /\ UNCHANGED console
    /\ UNCHANGED pending
    /\ committed' = batch
    /\ batch' = <<>>
    /\ UNCHANGED <<puzzle, validator, call, result, trace, earlier>>

DisplayNext ==
    \/ InitEffect
    \/ DragEnd
    \/ Reset
    \/ ShowSolution
    \/ Render

DisplaySpec == DisplayInit /\ [][DisplayNext]_vars

----------------------------------------------------------------------------
(* Properties of PuzzleDisplay.                                            *)

IdsOf(blocks) == [k \in 1..Len(blocks) |-> blocks[k].id]
Occurrences(blocks, id) == Cardinality({k \in DOMAIN blocks : blocks[k].id = id})
LastHandler == committed[Len(committed)]

\* Every block of the puzzle is once in one of the two lists, and nothing
\* else is in them.
Partitioned(available, proof) ==
    /\ \A id \in BlockIdsOf(puzzle) :
          Occurrences(available, id) + Occurrences(proof, id) = 1
    /\ \A block \in SetOf(available) \cup SetOf(proof) : block \in SetOf(puzzle.blocks)

\* C28: once the init effect has been rendered, and whatever drag-end events,
\* Reset and Show Solution clicks have been handled since, two of them before
\* one render included, every block of the puzzle is exactly once in exactly
\* one of availableBlocks and proofBlocks, and the order handed to the
\* validator has no duplicate and no foreign id.
C28_EveryBlockInOnePlaceOnce ==
    Initialised =>
        /\ Partitioned(availableBlocks, proofBlocks)
        /\ NoRepeatedId(userOrder)
        /\ \A k \in DOMAIN userOrder : userOrder[k] \in BlockIdsOf(puzzle)

\* The state C28 excludes and the component reaches: a block twice in the
\* workspace and its id twice in the order validated.
DuplicateHandedToValidator ==
    /\ Initialised
    /\ \E id \in BlockIdsOf(puzzle) : Occurrences(proofBlocks, id) = 2
    /\ ~NoRepeatedId(userOrder)
    /\ validationResult # NullResult
    /\ Len(validationResult.details.duplicates) > 0

\* C29: the render after Show Solution (the last handler before it) shows
\* the canonical order in the workspace, an empty palette, and a validation
\* result with isCorrect = true and score 100; the render after Reset shows
\* an empty workspace and no validation result.
C29_ShowSolutionAndResetOutcome ==
    (Initialised /\ thrown = NoError) =>
        /\ LastHandler = "handleShowSolution" =>
              /\ IdsOf(proofBlocks) = puzzle.solutionOrder
              /\ availableBlocks = <<>>
              /\ validationResult # NullResult
              /\ validationResult.isCorrect = TRUE
              /\ validationResult.score = 100
        /\ LastHandler = "handleReset" =>
              /\ proofBlocks = <<>>
              /\ validationResult = NullResult

\* The solution shown right after a drag-end event, before any render
\* between the two, in a puzzle whose canonical order is not the order of its
\* blocks.
C29_Witness ==
    /\ committed = <<"handleDragEnd", "handleShowSolution">>
    /\ IdsOf(puzzle.blocks) # puzzle.solutionOrder
    /\ IdsOf(proofBlocks) = puzzle.solutionOrder
    /\ availableBlocks = <<>>
    /\ validationResult # NullResult
    /\ validationResult.isCorrect = TRUE
    /\ validationResult.score = 100

====
